---- MODULE Spec2Model ----
(***************************************************************************)
(* Model of the photo printer system's print job orchestration engine      *)
(* (PrintJobManager), the gateway adapter's discovery call                  *)
(* (ApiService.getPendingPhotos) and the print dispatch engine              *)
(* (PrinterService).                                                        *)
(*                                                                          *)
(* Execution is single-threaded and cooperative: one action of the model is *)
(* the code that runs from one I/O completion (or timer/HTTP trigger) up to *)
(* the next await on I/O.                                                   *)
(***************************************************************************)
EXTENDS Integers, Sequences, FiniteSets, Bags, TLC

\* ------------------------------------------------------------------ bounds
NumPhotos == 2        \* photos known to the upstream service
MaxJobs == 3          \* PrintJob objects created in one run
BreakerJobs == 1      \* the same, in runs that exercise the circuit breaker
MaxCalls == 1         \* discovery operations awaiting the gateway at once
MaxTimers == 1        \* setInterval calls in one run
ClockTicks == 3       \* times the clock advances in one run
TimeStep == 30000     \* granularity of the clock (ms)
MaxTime == TimeStep * (ClockTicks + 1)
PollCalls == 2        \* the same, in runs that exercise the polling lifecycle
PollTimers == 3       \* the same, in runs that exercise the polling lifecycle
PollJobs == 1         \* PrintJob objects created in those runs
QueueJobs == 2        \* PrintJob objects created in runs that exercise clearQueue
LiveJobs == 2         \* PrintJob objects created in runs with an armed timer and a clock
LiveTimers == 2       \* setInterval calls in those runs
PrinterJobs == 1      \* PrintJob objects created in runs that exercise the printer
PrinterPhotos == 1    \* photos pending upstream in those runs
MaxTests == 2         \* testPrinter calls in one run
PrinterTicks == 1     \* times the clock advances in runs that exercise the printer

\* ------------------------------------------------------- program constants
threshold == 3        \* fetchAndQueuePhotos: 429s that open the breaker
pauseMs == 60000      \* fetchAndQueuePhotos: length of the breaker window
maxAttempts == 3      \* handleJobFailure
PollBatchSize == 5    \* fetchAndQueuePhotos(eventId, batchSize = 5)
ManualBatchSize == 50 \* printPhotosByEventId
NoTime == 0           \* null / undefined timestamp (falsy, like null)
NoTimer == 0          \* pollInterval = null
NoStatus == 0         \* error.response?.status = undefined
NoEvent == "undefined" \* lastEventId before any startPolling call
TestPhotoId == 0      \* testPrinter: the photo with _id 'test-print'

Photos == 1..NumPhotos
Min(a, b) == IF a < b THEN a ELSE b

VARIABLES
  now,              \* Date.now()
  printQueue,       \* PrintJobManager.printQueue
  isProcessing,     \* PrintJobManager.isProcessing
  pollInterval,     \* PrintJobManager.pollInterval (handle of the last setInterval)
  lastEventId,      \* PrintJobManager.lastEventId
  stopped,          \* stopPolling returned after the latest startPolling call (history)
  timers,           \* interval timers armed in the runtime: [id, eventId]
  consecutive429s,  \* PrintJobManager.consecutive429s
  breakerOpenUntil, \* PrintJobManager.breakerOpenUntil
  calls,            \* discovery operations suspended in getPendingPhotos (a bag)
  drains,           \* running drain loops: where each stands and the job it holds
  remote,           \* print status of each photo at the upstream service
  nextJob,          \* PrintJob objects created so far
  nextTimer,        \* setInterval calls so far
  hist,             \* per job: what has been observed of it (history)
  last,             \* the step just taken and what it did (history)
  platform,         \* PrinterService.platform
  isPrinting,       \* PrinterService.isPrinting
  printFiles,       \* PrinterService.printQueue (temp files awaiting dispatch)
  tempDir,          \* files present in PrinterService.tempDir
  prints,           \* printPhoto calls that have not settled
  dispatches,       \* processPrintQueue activations past their guard
  nextTest          \* testPrinter calls so far

vars == <<now, printQueue, isProcessing, pollInterval, lastEventId, stopped, timers,
          consecutive429s,
          breakerOpenUntil, calls, drains, remote, nextJob, nextTimer, hist, last,
          platform, isPrinting, printFiles, tempDir, prints, dispatches, nextTest>>

\* What is known of the polling requests made so far.
polling == <<lastEventId, stopped>>

\* The state of PrinterService.
printer == <<platform, isPrinting, printFiles, tempDir, prints, dispatches, nextTest>>

\* ------------------------------------------------------------- the gateway
\* Texts are sequences of words; a regular expression is matched on the words.
Lower(w) ==
  CASE w = "Status" -> "status"
    [] w = "Code" -> "code"
    [] OTHER -> w

StatusWord(s) ==
  CASE s = 429 -> "429"
    [] s = 500 -> "500"
    [] OTHER -> "0"

\* axios: the message of the error for a response with a failure status, or
\* for no response at all (status NoStatus).
AxiosMessage(s) ==
  IF s = NoStatus THEN <<"Network", "Error">>
  ELSE <<"Request", "failed", "with", "status", "code", StatusWord(s)>>

\* Bodies an upstream failure response may carry in its `message` field
\* (<<>>: no such field).
BodyMessages ==
  { <<>>, <<"Too", "many", "requests">>, <<"Upstream", "Status", "Code", "429">> }

FailureStatuses == {NoStatus, 429, 500}

\* What the upstream service answers to one request of getPendingPhotos.
Replies(pending, limit) ==
  LET n == Min(Min(limit, NumPhotos), Cardinality(pending)) IN
  { [status |-> 200, message |-> <<>>, photos |-> ph] :
      ph \in UNION { [1..k -> pending] : k \in 0..n } }
  \cup
  { [status |-> NoStatus, message |-> <<>>, photos |-> <<>>] }
  \cup
  { [status |-> s, message |-> m, photos |-> <<>>] :
      s \in FailureStatuses \ {NoStatus}, m \in BodyMessages }

\* getPendingPhotos: the Error thrown when the fallback request failed too.
FallbackError(reply) ==
  [ message |-> <<"Failed", "to", "fetch", "pending", "photos", "from", "server:">>
                \o (IF reply.message # <<>> THEN reply.message
                    ELSE AxiosMessage(reply.status)),
    status |-> NoStatus ]

\* getPendingPhotos: the Error thrown for a missing event id.
MissingEventError ==
  [ message |-> <<"Event", "ID", "is", "required">>, status |-> NoStatus ]

\* /status code 429/i.test(message)
MatchesStatusCode429(msg) ==
  \E i \in 1..(Len(msg) - 2) :
    /\ Lower(msg[i]) = "status"
    /\ Lower(msg[i + 1]) = "code"
    /\ Lower(msg[i + 2]) = "429"

\* fetchAndQueuePhotos: is the caught error a rate-limit failure?
IsRateLimited(err) == err.status = 429 \/ MatchesStatusCode429(err.message)

\* ------------------------------------------------------ PrintJobManager
NewJob(id, photo) ==
  [id |-> id, photoId |-> photo, status |-> "queued", attempts |-> 0,
   completedAt |-> NoTime, error |-> "none"]

\* printQueue.find(job => job.photoId === photo._id)
\* (slip: the queue is not searched)
AlreadyQueuedNever(q, photo) == FALSE
AlreadyQueued(q, photo) == \E i \in 1..Len(q) : q[i].photoId = photo

\* fetchAndQueuePhotos: the loop over response.photos; `id` is the next
\* fresh job object.
RECURSIVE Enqueue(_, _, _)
Enqueue(q, photos, id) ==
  IF photos = <<>> THEN q
  ELSE IF AlreadyQueued(q, Head(photos))
       THEN Enqueue(q, Tail(photos), id)
       ELSE Enqueue(Append(q, NewJob(id, Head(photos))), Tail(photos), id + 1)

\* Timer callback: is the cycle skipped because the breaker is open?
\* (slips: the test is missing; the time is not compared)
BreakerBlocksNever(t, openUntil) == FALSE
BreakerBlocksForever(t, openUntil) == openUntil # NoTime
BreakerBlocks(t, openUntil) == openUntil # NoTime /\ t < openUntil

\* Timer callback: has the breaker's window passed?
\* (slip: > for >=)
BreakerExpiredStrictly(t, openUntil) == openUntil # NoTime /\ t > openUntil
BreakerExpired(t, openUntil) == openUntil # NoTime /\ t >= openUntil

\* fetchAndQueuePhotos: the breaker state after one more rate-limit failure.
\* (slip: the counter is not reset when the breaker opens)
AfterRateLimitKeepCount(count, openUntil, t) ==
  IF count + 1 >= threshold
  THEN [count |-> count + 1, openUntil |-> t + pauseMs]
  ELSE [count |-> count + 1, openUntil |-> openUntil]
AfterRateLimit(count, openUntil, t) ==
  IF count + 1 >= threshold
  THEN [count |-> 0, openUntil |-> t + pauseMs]
  ELSE [count |-> count + 1, openUntil |-> openUntil]

\* processQueue: the guard of the single-flight drain.
\* (slip: the flag is not tested)
DrainRefusedWhenEmpty(processing, q) == Len(q) = 0
DrainRefused(processing, q) == processing \/ Len(q) = 0

\* handleJobFailure: is the failed job retried?
\* (slips: <= for <, and one attempt too few)
ShouldRetryOnceMore(job) == job.attempts <= maxAttempts
ShouldRetryOnceLess(job) == job.attempts < maxAttempts - 1
ShouldRetry(job) == job.attempts < maxAttempts

\* updatePrintStatus: does a failed request reach the caller as an exception?
\* (slip: the failure is rethrown)
UpdateThrowsOnFailure(ok) == ~ok
UpdateThrows(ok) == FALSE

\* Per job: whether printPhoto returned true for it, and the status
\* notifications sent to the gateway on its behalf (history).
NoHist == [printOk |-> FALSE, printed |-> 0, failed |-> 0, photos |-> {}]

\* The step just taken (history): the operation; the caller of the discovery
\* it belongs to; whether it went its normal way; for a failed discovery,
\* whether both upstream answers were 429 (up429) and whether the manager
\* took the failure as a rate-limit failure (rl); how a call of processQueue
\* ended (pq); whether a timer callback closed the breaker (closed); the event
\* id a polling request or a discovery was made with (ev); the photos a
\* successful discovery was answered with (photos); why a printPhoto call
\* returned false without a print, or how a print command ended (why).
Quiet == [op |-> "step", kind |-> "none", ok |-> TRUE, up429 |-> FALSE,
          rl |-> FALSE, pq |-> "none", closed |-> FALSE, ev |-> "none",
          photos |-> <<>>, why |-> "none"]
Note(op, kind, ok) == [Quiet EXCEPT !.op = op, !.kind = kind, !.ok = ok]

\* processQueue: the condition of the while loop.
\* (slip: > 1 for > 0)
LoopGoesOnAboveOne(q) == Len(q) > 1
LoopGoesOn(q) == Len(q) > 0

\* processQueue: printQueue.shift(), the job taken and the queue left.
\* (slip: pop for shift)
Pop(q) == [job |-> q[Len(q)], left |-> SubSeq(q, 1, Len(q) - 1)]
Shift(q) == [job |-> Head(q), left |-> Tail(q)]

\* processQueue: isProcessing once the loop has ended.
\* (slip: the flag is not released)
FlagKept(processing) == processing
FlagReleased(processing) == FALSE

\* processQueue: one turn of the while loop of a drain, the other drains
\* being `rest`. Takes the head job and runs processJob up to its first
\* await (getPhoto), or ends the drain.
LoopStep(q, processing, rest) ==
  IF LoopGoesOn(q)
  THEN /\ printQueue' = Shift(q).left
       /\ isProcessing' = processing
       /\ drains' = rest \cup {[pc |-> "getPhoto",
                                job |-> [Shift(q).job EXCEPT !.status = "printing",
                                                             !.attempts = @ + 1]]}
  ELSE /\ printQueue' = q
       /\ isProcessing' = FlagReleased(processing)
       /\ drains' = rest

\* processQueue, called with the queue being q.
ProcessQueue(q) ==
  IF DrainRefused(isProcessing, q)
  THEN /\ printQueue' = q
       /\ UNCHANGED <<isProcessing, drains>>
  ELSE LoopStep(q, TRUE, drains)

\* How that call of processQueue ends.
Outcome(q) ==
  IF isProcessing THEN "refused" ELSE IF Len(q) = 0 THEN "empty" ELSE "started"

\* handleJobFailure: printQueue.push(job).
\* (slip: unshift for push)
Unshift(q, job) == <<job>> \o q
Push(q, job) == Append(q, job)

\* handleJobFailure: the job as it is pushed for its retry.
\* (slip: the status is not set back to queued)
RetriedAsFailed(job, err) == [job EXCEPT !.status = "failed", !.error = err]
Retried(job, err) == [job EXCEPT !.status = "queued", !.error = err]

\* handleJobFailure for the job of drain d, then the loop goes on (retry) or
\* awaits the gateway (terminal failure).
HandleJobFailure(d, err) ==
  IF ShouldRetry(d.job)
  THEN /\ LoopStep(Push(printQueue, Retried(d.job, err)),
                   isProcessing, drains \ {d})
       /\ UNCHANGED hist
  ELSE /\ drains' = (drains \ {d}) \cup
                      {[pc |-> "updateFailed",
                        job |-> [d.job EXCEPT !.status = "failed", !.error = err]]}
       /\ hist' = [hist EXCEPT ![d.job.id].failed = @ + 1]
       /\ UNCHANGED <<printQueue, isProcessing>>

\* ---------------------------------------------------------------- actions
Idle ==
  /\ now = TimeStep
  /\ printQueue = <<>>
  /\ isProcessing = FALSE
  /\ pollInterval = NoTimer
  /\ lastEventId = NoEvent
  /\ stopped = FALSE
  /\ timers = {}
  /\ consecutive429s = 0
  /\ breakerOpenUntil = NoTime
  /\ calls = EmptyBag
  /\ drains = {}
  /\ remote = [p \in Photos |-> "pending"]
  /\ nextJob = 0
  /\ nextTimer = 0
  /\ hist = [j \in 1..MaxJobs |-> NoHist]
  /\ last = Quiet
  /\ isPrinting = FALSE
  /\ printFiles = <<>>
  /\ tempDir = {}
  /\ prints = {}
  /\ dispatches = {}
  /\ nextTest = 0

Init == Idle /\ platform = "linux"

\* Time passes.
Advance ==
  /\ now + TimeStep <= MaxTime
  /\ now' = now + TimeStep
  /\ last' = Quiet
  /\ UNCHANGED <<printQueue, isProcessing, pollInterval, timers, consecutive429s,
                 breakerOpenUntil, calls, drains, remote, nextJob, nextTimer, hist>>
  /\ UNCHANGED printer
  /\ UNCHANGED polling

\* A discovery operation suspended in getPendingPhotos: who called, with which
\* arguments, which request is awaited, and statusCode of the failed primary.
Call(kind, eventId, limit, phase, statusCode) ==
  [kind |-> kind, eventId |-> eventId, limit |-> limit, phase |-> phase,
   statusCode |-> statusCode]
Issue(c) == calls (+) SetToBag({c})
Retire(c) == calls (-) SetToBag({c})
StartsPending ==
  LET S == {c \in BagToSet(calls) : c.kind = "start"} IN
  IF S = {} THEN 0 ELSE BagCardinality([c \in S |-> calls[c]])

\* startPolling: is the call rejected for its event id?
\* (slip: the test is missing)
RejectsStartNever(e) == FALSE
RejectsStart(e) == e = ""

\* startPolling(eventId) up to its throw or the await of its initial fetch;
\* at most maxCalls discoveries are awaited at once and maxTimers timers are
\* set in one run.
StartPolling(e, maxCalls, maxTimers) ==
  /\ IF RejectsStart(e)
     THEN /\ last' = [Note("startPolling", "start", FALSE) EXCEPT !.ev = e]
          /\ UNCHANGED <<timers, calls, lastEventId, stopped>>
     ELSE /\ BagCardinality(calls) < maxCalls
          /\ nextTimer + StartsPending < maxTimers
          /\ timers' = {t \in timers : t.id # pollInterval}
          /\ lastEventId' = e
          /\ stopped' = FALSE
          /\ calls' = Issue(Call("start", e, PollBatchSize, "primary", NoStatus))
          /\ last' = [Note("startPolling", "start", TRUE) EXCEPT !.ev = e]
  /\ UNCHANGED <<now, printQueue, isProcessing, pollInterval, consecutive429s,
                 breakerOpenUntil, drains, remote, nextJob, nextTimer, hist>>
  /\ UNCHANGED printer

\* The event polled by the timer that pollInterval names, if it is armed.
Polled ==
  IF \E t \in timers : t.id = pollInterval
  THEN (CHOOSE t \in timers : t.id = pollInterval).eventId
  ELSE "none"

\* stopPolling: the drain loops left running.
\* (slip: stopping also abandons the drain)
StopKeepsNone(running) == {}
StopKeeps(running) == running

\* stopPolling(); the history of polling requests is kept when `noted`.
StopPolling(noted) ==
  /\ IF pollInterval # NoTimer
     THEN /\ timers' = {t \in timers : t.id # pollInterval}
          /\ pollInterval' = NoTimer
     ELSE UNCHANGED <<timers, pollInterval>>
  /\ IF noted
     THEN /\ stopped' = (lastEventId # NoEvent)
          /\ last' = [Note("stopPolling", "none", pollInterval # NoTimer) EXCEPT
                        !.ev = Polled]
     ELSE /\ UNCHANGED stopped
          /\ last' = Quiet
  /\ drains' = StopKeeps(drains)
  /\ UNCHANGED lastEventId
  /\ UNCHANGED <<now, printQueue, isProcessing, consecutive429s, breakerOpenUntil,
                 calls, remote, nextJob, nextTimer, hist>>
  /\ UNCHANGED printer

\* The timer callback up to the await of its fetch.
Tick(t, maxCalls) ==
  /\ t \in timers
  /\ IF BreakerBlocks(now, breakerOpenUntil)
     THEN /\ last' = [Note("tick", "tick", FALSE) EXCEPT !.ev = t.eventId]
          /\ UNCHANGED <<consecutive429s, breakerOpenUntil, calls>>
     ELSE /\ BagCardinality(calls) < maxCalls
          /\ IF BreakerExpired(now, breakerOpenUntil)
             THEN /\ breakerOpenUntil' = NoTime
                  /\ consecutive429s' = 0
             ELSE UNCHANGED <<consecutive429s, breakerOpenUntil>>
          /\ calls' = Issue(Call("tick", t.eventId, PollBatchSize, "primary", NoStatus))
          /\ last' = [Note("tick", "tick", TRUE) EXCEPT
                        !.closed = BreakerExpired(now, breakerOpenUntil),
                        !.ev = t.eventId]
  /\ UNCHANGED <<now, printQueue, isProcessing, pollInterval, timers, drains,
                 remote, nextJob, nextTimer, hist>>
  /\ UNCHANGED printer
  /\ UNCHANGED polling

\* What the caller of fetchAndQueuePhotos does next, the queue being q:
\* startPolling arms its timer, a timer callback and printPhotosByEventId
\* call processQueue.
Continue(c, q) ==
  IF c.kind = "start"
  THEN /\ nextTimer' = nextTimer + 1
       /\ pollInterval' = nextTimer + 1
       /\ timers' = timers \cup {[id |-> nextTimer + 1, eventId |-> c.eventId]}
       /\ printQueue' = q
       /\ UNCHANGED <<isProcessing, drains>>
  ELSE /\ ProcessQueue(q)
       /\ UNCHANGED <<nextTimer, pollInterval, timers>>

Called(c, q) == IF c.kind = "start" THEN "none" ELSE Outcome(q)

\* fetchAndQueuePhotos: the counter after a successful fetch.
\* (slip: the streak is not reset)
AfterSuccessKeepCount(count) == count
AfterSuccess(count) == 0

\* fetchAndQueuePhotos after getPendingPhotos returned `photos`; `budget`
\* bounds the jobs created in one run.
FetchSucceeded(c, photos, budget) ==
  LET q == Enqueue(printQueue, photos, nextJob + 1)
      made == Len(q) - Len(printQueue)
  IN /\ nextJob + made <= budget
     /\ nextJob' = nextJob + made
     /\ consecutive429s' = AfterSuccess(consecutive429s)
     /\ UNCHANGED breakerOpenUntil
     /\ Continue(c, q)
     /\ last' = [Note("fetched", c.kind, TRUE) EXCEPT !.pq = Called(c, q),
                                                     !.ev = c.eventId,
                                                     !.photos = photos]

\* fetchAndQueuePhotos: does the caught error reach the caller?
\* (slip: errors other than rate-limit failures are rethrown)
RethrowsUnlessRateLimited(err) == ~IsRateLimited(err)
Rethrows(err) == FALSE

\* fetchAndQueuePhotos after getPendingPhotos threw `err`.
FetchFailed(c, err, up429) ==
  /\ IF IsRateLimited(err)
     THEN LET b == AfterRateLimit(consecutive429s, breakerOpenUntil, now) IN
          /\ consecutive429s' = b.count
          /\ breakerOpenUntil' = b.openUntil
     ELSE UNCHANGED <<consecutive429s, breakerOpenUntil>>
  /\ UNCHANGED nextJob
  /\ IF Rethrows(err)
     THEN UNCHANGED <<printQueue, isProcessing, drains, nextTimer, pollInterval, timers>>
     ELSE Continue(c, printQueue)
  /\ last' = [Note("fetched", c.kind, FALSE) EXCEPT
                !.up429 = up429, !.rl = IsRateLimited(err),
                !.pq = Called(c, printQueue), !.ev = c.eventId]

\* printPhotosByEventId(eventId) up to the await of its fetch; with a missing
\* event id getPendingPhotos throws before any request is made.
PrintPhotosByEventId(e, maxCalls) ==
  /\ IF e = ""
     THEN /\ FetchFailed(Call("manual", e, ManualBatchSize, "primary", NoStatus),
                         MissingEventError, FALSE)
          /\ UNCHANGED calls
     ELSE /\ BagCardinality(calls) < maxCalls
          /\ calls' = Issue(Call("manual", e, ManualBatchSize, "primary", NoStatus))
          /\ last' = [Note("printPhotosByEventId", "manual", TRUE) EXCEPT !.ev = e]
          /\ UNCHANGED <<printQueue, isProcessing, pollInterval, timers,
                         consecutive429s, breakerOpenUntil, drains, nextJob,
                         nextTimer>>
  /\ UNCHANGED <<now, remote, hist>>
  /\ UNCHANGED printer
  /\ UNCHANGED polling

\* Photos the upstream service holds as pending.
Pending == {p \in Photos : remote[p] = "pending"}

\* getPendingPhotos: the primary request is answered.
PrimaryReply(c, r, budget) ==
  /\ c.phase = "primary"
  /\ IF r.status = 200
     THEN /\ FetchSucceeded(c, r.photos, budget)
          /\ calls' = Retire(c)
     ELSE /\ calls' = Retire(c) (+) SetToBag({[c EXCEPT !.phase = "fallback",
                                                        !.statusCode = r.status]})
          /\ last' = Note("primaryFailed", c.kind, FALSE)
          /\ UNCHANGED <<printQueue, isProcessing, pollInterval, timers,
                         consecutive429s, breakerOpenUntil, drains, nextJob,
                         nextTimer>>
  /\ UNCHANGED <<now, remote, hist>>
  /\ UNCHANGED printer
  /\ UNCHANGED polling

\* getPendingPhotos: the fallback request is answered.
FallbackReply(c, r, budget) ==
  /\ c.phase = "fallback"
  /\ IF r.status = 200
     THEN FetchSucceeded(c, r.photos, budget)
     ELSE FetchFailed(c, FallbackError(r), c.statusCode = 429 /\ r.status = 429)
  /\ calls' = Retire(c)
  /\ UNCHANGED <<now, remote, hist>>
  /\ UNCHANGED printer
  /\ UNCHANGED polling

\* processJob after getPhoto returned (printPhoto is called), or threw.
AfterGetPhoto(d, ok) ==
  /\ d.pc = "getPhoto"
  /\ IF ok
     THEN /\ drains' = (drains \ {d}) \cup {[d EXCEPT !.pc = "printPhoto"]}
          /\ UNCHANGED <<printQueue, isProcessing, hist>>
     ELSE HandleJobFailure(d, "Failed to fetch photo")
  /\ UNCHANGED <<now, pollInterval, timers, consecutive429s, breakerOpenUntil,
                 calls, remote, nextJob, nextTimer>>
  /\ UNCHANGED polling

\* processJob: getPhoto returned, or threw (the printer left aside).
GetPhotoReturn(d, ok) ==
  /\ AfterGetPhoto(d, ok)
  /\ last' = Quiet
  /\ UNCHANGED printer

\* processJob after printPhoto returned true or false.
AfterPrintPhoto(d, ok) ==
  /\ d.pc = "printPhoto"
  /\ IF ok
     THEN /\ drains' = (drains \ {d}) \cup
                         {[pc |-> "updatePrinted",
                           job |-> [d.job EXCEPT !.status = "completed",
                                                 !.completedAt = now]]}
          /\ hist' = [hist EXCEPT ![d.job.id].printOk = TRUE,
                                  ![d.job.id].photos = {d.job.photoId},
                                  ![d.job.id].printed = @ + 1]
          /\ UNCHANGED <<printQueue, isProcessing>>
     ELSE HandleJobFailure(d, "Print operation failed")
  /\ UNCHANGED <<now, pollInterval, timers, consecutive429s, breakerOpenUntil,
                 calls, remote, nextJob, nextTimer>>
  /\ UNCHANGED polling

\* processJob: printPhoto returned true or false (the printer left aside).
PrintPhotoReturn(d, ok) ==
  /\ AfterPrintPhoto(d, ok)
  /\ last' = Quiet
  /\ UNCHANGED printer

\* processJob: updatePrintStatus(photoId, 'printed') returned.
UpdatePrintedReturn(d, ok) ==
  /\ d.pc = "updatePrinted"
  /\ remote' = IF ok THEN [remote EXCEPT ![d.job.photoId] = "printed"] ELSE remote
  /\ IF UpdateThrows(ok)
     THEN HandleJobFailure(d, "Failed to update print status")
     ELSE /\ LoopStep(printQueue, isProcessing, drains \ {d})
          /\ UNCHANGED hist
  /\ last' = Quiet
  /\ UNCHANGED <<now, pollInterval, timers, consecutive429s, breakerOpenUntil,
                 calls, nextJob, nextTimer>>
  /\ UNCHANGED printer
  /\ UNCHANGED polling

\* handleJobFailure: updatePrintStatus(photoId, 'failed') returned.
UpdateFailedReturn(d, ok) ==
  /\ d.pc = "updateFailed"
  /\ remote' = IF ok THEN [remote EXCEPT ![d.job.photoId] = "failed"] ELSE remote
  /\ LoopStep(printQueue, isProcessing, drains \ {d})
  /\ last' = Quiet
  /\ UNCHANGED <<now, pollInterval, timers, consecutive429s, breakerOpenUntil,
                 calls, nextJob, nextTimer, hist>>
  /\ UNCHANGED printer
  /\ UNCHANGED polling

\* clearQueue: the queue it leaves.
\* (slip: a drain in progress keeps its queue)
ClearedWhenIdle(q, processing) == IF processing THEN q ELSE <<>>
Cleared(q, processing) == <<>>

\* clearQueue()
ClearQueue ==
  /\ printQueue' = Cleared(printQueue, isProcessing)
  /\ last' = Note("clearQueue", "none", TRUE)
  /\ UNCHANGED <<now, isProcessing, pollInterval, timers, consecutive429s,
                 breakerOpenUntil, calls, drains, remote, nextJob, nextTimer, hist>>
  /\ UNCHANGED printer
  /\ UNCHANGED polling

\* ------------------------------------------------------- PrinterService
\* The state of PrintJobManager and of the upstream service.
manager == <<now, printQueue, isProcessing, pollInterval, lastEventId, stopped,
             timers, consecutive429s, breakerOpenUntil, calls, drains, remote,
             nextJob, nextTimer, hist>>

\* os.platform(): darwin is handled like linux, freebsd stands for the rest.
Platforms == {"win32", "linux", "freebsd"}
Supported(p) == p \in {"win32", "linux"}

\* photo.imageData: a data:image/ URL, an http(s) URL, or anything else.
Formats == {"data", "http", "other"}

\* printPhoto: tempFilePath = `${Date.now()}_${photo._id}.jpg`
TempFilePath(t, photo) == [t |-> t, photo |-> photo]

\* A printPhoto call is known by its caller: job n (processJob) or the n-th
\* testPrinter call. Its record holds the temp file, the await it stands at
\* and, once it failed, the error caught (why).
Key(c) == [caller |-> c.caller, n |-> c.n]
NoCall == [caller |-> "none", n |-> 0]

\* processPrintQueue: the guard.
\* (slip: the flag is not tested)
PrintRefusedWhenEmpty(printing, q) == Len(q) = 0
PrintRefused(printing, q) == printing \/ Len(q) = 0

\* printImageFile: is the fallback command tried after the first one failed?
Fallback(p) == p = "win32"

\* printPhoto: what is awaited first for a payload of the given format: the
\* write of the decoded data URL, the download, or (no known format: the
\* throw) the cleanup of the catch block.
\* (slip: a payload in no known format is written like a data URL)
FirstAwaitWritesUnknown(fmt) ==
  CASE fmt = "http" -> "download"
    [] OTHER -> "write"
FirstAwait(fmt) ==
  CASE fmt = "data" -> "write"
    [] fmt = "http" -> "download"
    [] OTHER -> "cleanup"

\* printPhoto up to its first await.
PrintPhoto(caller, n, photo, fmt) ==
  /\ prints' = prints \cup
       {[caller |-> caller, n |-> n, file |-> TempFilePath(now, photo),
         pc |-> FirstAwait(fmt),
         why |-> IF fmt \in {"data", "http"} THEN "none" ELSE "format"]}
  /\ UNCHANGED <<platform, isPrinting, printFiles, tempDir, dispatches>>

\* processPrintQueue past its guard, the queue being q: takes the head file
\* and runs printImageFile up to the await of the spawned command (or, on a
\* platform without a print command, its throw and the await of the cleanup).
\* `waiter` is the printPhoto call that awaits the result, if any; `by` is the
\* call that queued the file (history).
StartDispatch(q, waiter, others) ==
  /\ isPrinting' = TRUE
  /\ printFiles' = Tail(q)
  /\ dispatches' = others \cup
       {[file |-> Head(q).path, by |-> Head(q).by, waiter |-> waiter,
         pc |-> IF Supported(platform) THEN "command" ELSE "cleanup",
         ok |-> FALSE]}

\* printPhoto returns `result` to its caller: processJob goes on, testPrinter
\* answers its request.
Settle(c, result) ==
  /\ prints' = prints \ {c}
  /\ last' = [Note("printPhoto", c.caller, result) EXCEPT !.why = c.why]
  /\ IF c.caller = "job"
     THEN \E d \in drains : d.job.id = c.n /\ AfterPrintPhoto(d, result)
     ELSE UNCHANGED manager

\* processJob: getPhoto returned the photo and printPhoto is called with it.
GetPhotoThenPrint(d, fmt) ==
  /\ AfterGetPhoto(d, TRUE)
  /\ PrintPhoto("job", d.job.id, d.job.photoId, fmt)
  /\ last' = Quiet
  /\ UNCHANGED nextTest

\* testPrinter() (not simulated) up to the first await of its printPhoto call.
TestPrinter ==
  /\ nextTest < MaxTests
  /\ nextTest' = nextTest + 1
  /\ PrintPhoto("test", nextTest + 1, TestPhotoId, "data")
  /\ last' = Note("testPrinter", "test", TRUE)
  /\ UNCHANGED manager

\* printPhoto: axios.get returned the image, or threw.
DownloadReturn(c, ok) ==
  /\ c.pc = "download"
  /\ prints' = (prints \ {c}) \cup
       {IF ok THEN [c EXCEPT !.pc = "write"]
        ELSE [c EXCEPT !.pc = "cleanup", !.why = "download"]}
  /\ last' = Quiet
  /\ UNCHANGED <<platform, isPrinting, printFiles, tempDir, dispatches, nextTest>>
  /\ UNCHANGED manager

\* printPhoto: fs.writeFile returned, or threw (leaving a partial file or
\* none); after a write the file is queued and processPrintQueue is called.
WriteReturn(c, ok, partial) ==
  /\ c.pc = "write"
  /\ IF ok
     THEN LET q == Append(printFiles, [path |-> c.file, by |-> Key(c)]) IN
          /\ tempDir' = tempDir \cup {c.file}
          /\ IF PrintRefused(isPrinting, q)
             THEN /\ printFiles' = q
                  /\ UNCHANGED <<isPrinting, dispatches>>
                  /\ Settle(c, TRUE)
             ELSE /\ StartDispatch(q, Key(c), dispatches)
                  /\ prints' = (prints \ {c}) \cup {[c EXCEPT !.pc = "dispatch"]}
                  /\ last' = Quiet
                  /\ UNCHANGED manager
     ELSE /\ tempDir' = IF partial THEN tempDir \cup {c.file} ELSE tempDir
          /\ prints' = (prints \ {c}) \cup {[c EXCEPT !.pc = "cleanup", !.why = "write"]}
          /\ last' = Quiet
          /\ UNCHANGED <<isPrinting, printFiles, dispatches>>
          /\ UNCHANGED manager
  /\ UNCHANGED <<platform, nextTest>>

\* printPhoto: the cleanupTempFile of its catch block returned; false is
\* returned.
CleanupReturn(c) ==
  /\ c.pc = "cleanup"
  /\ tempDir' = tempDir \ {c.file}
  /\ Settle(c, FALSE)
  /\ UNCHANGED <<platform, isPrinting, printFiles, dispatches, nextTest>>

\* printImageFile: the spawned command closed with code 0 ("ok"), closed with
\* another code ("exit"), or did not start ("nostart").
CommandOutcomes == {"ok", "exit", "nostart"}
CommandExit(a, outcome) ==
  /\ a.pc = "command"
  /\ dispatches' = (dispatches \ {a}) \cup
       {IF outcome = "ok" THEN [a EXCEPT !.pc = "cleanup", !.ok = TRUE]
        ELSE IF Fallback(platform) THEN [a EXCEPT !.pc = "fallback"]
        ELSE [a EXCEPT !.pc = "cleanup"]}
  /\ last' = [Note("commandExit", "none", outcome = "ok") EXCEPT !.why = outcome]
  /\ UNCHANGED <<platform, isPrinting, printFiles, tempDir, prints, nextTest>>
  /\ UNCHANGED manager

\* printImageFile: the PowerShell fallback closed with code 0, or failed.
FallbackExit(a, ok) ==
  /\ a.pc = "fallback"
  /\ dispatches' = (dispatches \ {a}) \cup {[a EXCEPT !.pc = "cleanup", !.ok = ok]}
  /\ last' = Quiet
  /\ UNCHANGED <<platform, isPrinting, printFiles, tempDir, prints, nextTest>>
  /\ UNCHANGED manager

\* processPrintQueue: the finally block calls processPrintQueue again when
\* files are waiting.
\* (slip: the finally block only releases the flag)
NextWantedNever(q) == FALSE
NextWanted(q) == Len(q) > 0

\* processPrintQueue: cleanupTempFile returned; the result is returned, and
\* the finally block releases the flag and dispatches the next queued file.
DispatchCleanupReturn(a) ==
  /\ a.pc = "cleanup"
  /\ tempDir' = tempDir \ {a.file}
  /\ IF NextWanted(printFiles) /\ ~PrintRefused(FALSE, printFiles)
     THEN StartDispatch(printFiles, NoCall, dispatches \ {a})
     ELSE /\ isPrinting' = FALSE
          /\ dispatches' = dispatches \ {a}
          /\ UNCHANGED printFiles
  /\ IF a.waiter # NoCall
     THEN \E c \in prints : Key(c) = a.waiter /\ Settle(c, a.ok)
     ELSE /\ last' = Quiet
          /\ UNCHANGED prints
          /\ UNCHANGED manager
  /\ UNCHANGED <<platform, nextTest>>

\* path.basename of a temp file: its name `${t}_${photo}.jpg` without the
\* directory.
BaseName(file) == <<file.t, file.photo>>

\* currentJob: null
NoFile == <<>>

\* PrinterService.getQueueStatus(): the fields that depend on the queue.
GetQueueStatus ==
  [isPrinting |-> isPrinting,
   queueLength |-> Len(printFiles),
   currentJob |-> IF isPrinting /\ Len(printFiles) > 0
                  THEN BaseName(printFiles[1].path)
                  ELSE NoFile,
   printerStatus |-> IF isPrinting THEN "printing" ELSE "idle"]

\* Answers of the upstream service without the rate-limit cases.
PlainReplies(pending, limit) ==
  {r \in Replies(pending, limit) : r.status \in {200, 500} /\ r.message = <<>>}

\* The job engine: discovery, the drain and its retries, clearQueue.
Next ==
  \/ StartPolling("E1", MaxCalls, MaxTimers)
  \/ StopPolling(FALSE)
  \/ \E t \in timers : Tick(t, MaxCalls)
  \/ \E e \in {"E1", ""} : PrintPhotosByEventId(e, MaxCalls)
  \/ \E c \in BagToSet(calls) : \E r \in PlainReplies(Pending, c.limit) : PrimaryReply(c, r, MaxJobs)
  \/ \E c \in BagToSet(calls) : \E r \in PlainReplies(Pending, c.limit) : FallbackReply(c, r, MaxJobs)
  \/ \E d \in drains : \E ok \in BOOLEAN : GetPhotoReturn(d, ok)
  \/ \E d \in drains : \E ok \in BOOLEAN : PrintPhotoReturn(d, ok)
  \/ \E d \in drains : \E ok \in BOOLEAN : UpdatePrintedReturn(d, ok)
  \/ \E d \in drains : \E ok \in BOOLEAN : UpdateFailedReturn(d, ok)
  \/ ClearQueue

Spec == Init /\ [][Next]_vars

\* The circuit breaker: the clock, every answer of the upstream service, and
\* jobs whose attempts succeed.
NextBreaker ==
  \/ Advance
  \/ \E e \in {"E1", ""} : StartPolling(e, MaxCalls, MaxTimers)
  \/ StopPolling(TRUE)
  \/ \E t \in timers : Tick(t, MaxCalls)
  \/ PrintPhotosByEventId("E1", MaxCalls)
  \/ \E c \in BagToSet(calls) : \E r \in Replies(Pending, c.limit) : PrimaryReply(c, r, BreakerJobs)
  \/ \E c \in BagToSet(calls) : \E r \in Replies(Pending, c.limit) : FallbackReply(c, r, BreakerJobs)
  \/ \E d \in drains : GetPhotoReturn(d, TRUE)
  \/ \E d \in drains : PrintPhotoReturn(d, TRUE)
  \/ \E d \in drains : UpdatePrintedReturn(d, TRUE)

SpecBreaker == Init /\ [][NextBreaker]_vars

\* The printer: jobs found by manual discovery and self-tests share one
\* PrinterService, on every platform and with every kind of image payload.
OkReplies(pending, limit) == {r \in Replies(pending, limit) : r.status = 200}

InitPrinter == Idle /\ platform \in Platforms

NextPrinter ==
  \/ (now + TimeStep <= TimeStep * (PrinterTicks + 1) /\ Advance)
  \/ PrintPhotosByEventId("E1", MaxCalls)
  \/ \E c \in BagToSet(calls) : \E r \in OkReplies(Pending \cap 1..PrinterPhotos, c.limit) : PrimaryReply(c, r, PrinterJobs)
  \/ \E d \in drains : \E fmt \in Formats : GetPhotoThenPrint(d, fmt)
  \/ TestPrinter
  \/ \E c \in prints : \E ok \in BOOLEAN : DownloadReturn(c, ok)
  \/ \E c \in prints : \E ok, partial \in BOOLEAN : WriteReturn(c, ok, partial)
  \/ \E c \in prints : CleanupReturn(c)
  \/ \E a \in dispatches : \E o \in CommandOutcomes : CommandExit(a, o)
  \/ \E a \in dispatches : \E ok \in BOOLEAN : FallbackExit(a, ok)
  \/ \E a \in dispatches : DispatchCleanupReturn(a)
  \/ \E d \in drains : UpdatePrintedReturn(d, TRUE)
  \/ \E d \in drains : UpdateFailedReturn(d, TRUE)

SpecPrinter == InitPrinter /\ [][NextPrinter]_vars

\* The polling lifecycle: startPolling for two events and for a missing one,
\* overlapping with each other and with stopPolling, timers and manual prints.
NextPolling ==
  \/ \E e \in {"E1", "E2", ""} : StartPolling(e, PollCalls, PollTimers)
  \/ StopPolling(TRUE)
  \/ \E t \in timers : Tick(t, PollCalls)
  \/ \E e \in {"E1", ""} : PrintPhotosByEventId(e, PollCalls)
  \/ \E c \in BagToSet(calls) : \E r \in PlainReplies(Pending, c.limit) : PrimaryReply(c, r, PollJobs)
  \/ \E c \in BagToSet(calls) : \E r \in PlainReplies(Pending, c.limit) : FallbackReply(c, r, PollJobs)
  \/ \E d \in drains : GetPhotoReturn(d, TRUE)
  \/ \E d \in drains : PrintPhotoReturn(d, TRUE)
  \/ \E d \in drains : UpdatePrintedReturn(d, TRUE)

SpecPolling == Init /\ [][NextPolling]_vars

\* Answers of the upstream service that are a success or a bare 429.
RateReplies(pending, limit) ==
  {r \in Replies(pending, limit) : r.status \in {200, 429} /\ r.message = <<>>}

\* The queue and clearQueue: a polling timer, manual prints, rate-limited
\* discoveries and failing attempts, with clearQueue called at any moment.
NextQueue ==
  \/ StartPolling("E1", MaxCalls, MaxTimers)
  \/ \E t \in timers : Tick(t, MaxCalls)
  \/ PrintPhotosByEventId("E1", MaxCalls)
  \/ \E c \in BagToSet(calls) : \E r \in RateReplies(Pending, c.limit) : PrimaryReply(c, r, QueueJobs)
  \/ \E c \in BagToSet(calls) : \E r \in RateReplies(Pending, c.limit) : FallbackReply(c, r, QueueJobs)
  \/ \E d \in drains : \E ok \in BOOLEAN : GetPhotoReturn(d, ok)
  \/ \E d \in drains : PrintPhotoReturn(d, TRUE)
  \/ \E d \in drains : UpdatePrintedReturn(d, TRUE)
  \/ \E d \in drains : UpdateFailedReturn(d, TRUE)
  \/ ClearQueue

SpecQueue == Init /\ [][NextQueue]_vars

\* A gateway or print call awaited by a drain returns.
JobStep ==
  \/ \E d \in drains : \E ok \in BOOLEAN : GetPhotoReturn(d, ok)
  \/ \E d \in drains : PrintPhotoReturn(d, TRUE)
  \/ \E d \in drains : UpdatePrintedReturn(d, TRUE)
  \/ \E d \in drains : UpdateFailedReturn(d, TRUE)

\* The same runs, in which every call awaited by a drain returns.
FairQueue == SpecQueue /\ WF_vars(JobStep)

\* Polling with the clock: the timer, once armed, stays armed; discoveries
\* succeed or are rate limited, attempts succeed or fail at getPhoto.
NextLive ==
  \/ Advance
  \/ StartPolling("E1", MaxCalls, LiveTimers)
  \/ \E t \in timers : Tick(t, MaxCalls)
  \/ \E c \in BagToSet(calls) : \E r \in RateReplies(Pending, c.limit) : PrimaryReply(c, r, LiveJobs)
  \/ \E c \in BagToSet(calls) : \E r \in RateReplies(Pending, c.limit) : FallbackReply(c, r, LiveJobs)
  \/ JobStep

\* A request of getPendingPhotos is answered.
GatewayStep ==
  \/ \E c \in BagToSet(calls) : \E r \in RateReplies(Pending, c.limit) : PrimaryReply(c, r, LiveJobs)
  \/ \E c \in BagToSet(calls) : \E r \in RateReplies(Pending, c.limit) : FallbackReply(c, r, LiveJobs)

\* Those runs, in which time passes, an armed timer fires and every awaited
\* call returns.
FairLive ==
  /\ Init /\ [][NextLive]_vars
  /\ WF_vars(Advance)
  /\ WF_vars(\E t \in timers : Tick(t, MaxCalls))
  /\ WF_vars(GatewayStep)
  /\ WF_vars(JobStep)

\* ------------------------------------------------------------------ claims
Jobs == {printQueue[i] : i \in 1..Len(printQueue)} \cup {d.job : d \in drains}
Queued(j) == \E i \in 1..Len(printQueue) : printQueue[i].id = j
Held(j) == \E d \in drains : d.job.id = j
BreakerOpenNow == breakerOpenUntil # NoTime /\ now < breakerOpenUntil
IssuesFetch(step) ==
  step.ok /\ step.op \in {"startPolling", "tick", "printPhotosByEventId"}

\* C1: in every reachable state no two jobs of printQueue have the same
\* photoId.
C1_NoDuplicatePhotoInQueue ==
  \A i, k \in 1..Len(printQueue) :
    i # k => printQueue[i].photoId # printQueue[k].photoId

\* C2: attempts never exceeds 3 on any job, queued or being processed, and
\* no queued job has attempts 3 (it would be dequeued for a fourth attempt).
C2_AttemptsAtMostThree ==
  /\ \A i \in 1..Len(printQueue) : printQueue[i].attempts < 3
  /\ \A d \in drains : d.job.attempts >= 1 /\ d.job.attempts <= 3

\* C2 witness: a job is in its third attempt while jobs wait in a queue that
\* discovery refilled.
C2_Witness ==
  \E d \in drains : d.job.attempts = 3 /\ d.pc = "printPhoto" /\ Len(printQueue) > 0

\* C3: while the breaker is open (the time is before breakerOpenUntil) no
\* operation issues a discovery fetch: not a timer callback, not startPolling,
\* not printPhotosByEventId.
C3_NoFetchWhileBreakerOpen == IssuesFetch(last) => ~BreakerOpenNow

\* C4: a timer callback that runs while the breaker is open does nothing: no
\* gateway request, no drain, and the queue, the counter and breakerOpenUntil
\* stay as they are.
C4_TickSkippedWhileOpen ==
  [][ (last'.op = "tick" /\ BreakerOpenNow) =>
        /\ ~last'.ok
        /\ UNCHANGED <<printQueue, isProcessing, drains, calls, consecutive429s,
                       breakerOpenUntil, pollInterval, timers, remote, hist>> ]_vars

\* C4 witness: a timer callback has been skipped with the breaker open.
C4_Witness == last.op = "tick" /\ ~last.ok /\ BreakerOpenNow

\* C5: a rate-limit failure of a discovery that is the third of its streak
\* sets breakerOpenUntil to the current time + 60000 and the counter to 0 in
\* the same step; the first and second only add one to the counter and leave
\* breakerOpenUntil alone.
C5_ThirdRateLimitOpensBreaker ==
  /\ [](consecutive429s \in 0..2)
  /\ [][ (last'.op = "fetched" /\ last'.rl) =>
           IF consecutive429s = 2
           THEN breakerOpenUntil' = now + 60000 /\ consecutive429s' = 0
           ELSE /\ consecutive429s' = consecutive429s + 1
                /\ breakerOpenUntil' = breakerOpenUntil ]_vars

\* C5 witness: the third rate-limit failure has just opened the breaker.
C5_Witness ==
  /\ last.op = "fetched" /\ last.rl
  /\ breakerOpenUntil = now + 60000 /\ consecutive429s = 0

\* C6: a timer callback that runs at or after breakerOpenUntil closes the
\* breaker (breakerOpenUntil null, counter 0) in the step that issues its
\* fetch, and when the fetch of a timer callback has returned, with photos or
\* with a failure, processQueue is called: it starts a drain unless one runs
\* or the queue is empty.
C6_TickClosesBreaker ==
  /\ [][ (last'.op = "tick" /\ breakerOpenUntil # NoTime /\ now >= breakerOpenUntil) =>
           /\ breakerOpenUntil' = NoTime
           /\ consecutive429s' = 0
           /\ last'.ok /\ last'.closed
           /\ calls' = calls (+) SetToBag({Call("tick", "E1", 5, "primary", NoStatus)}) ]_vars
  /\ [][ (last'.op = "fetched" /\ last'.kind = "tick") =>
           /\ last'.pq # "none"
           /\ last'.pq = "started" => (isProcessing' /\ drains' # {})
           /\ (~isProcessing /\ last'.pq # "started") => printQueue' = <<>> ]_vars

\* C6 witness: a timer callback has just closed the breaker and issued its
\* fetch, the window having passed.
C6_Witness ==
  /\ last.op = "tick" /\ last.closed /\ last.ok
  /\ breakerOpenUntil = NoTime /\ consecutive429s = 0
  /\ now >= TimeStep + 60000
  /\ \E c \in BagToSet(calls) : c.kind = "tick" /\ c.phase = "primary"

\* C7: a discovery that the upstream service answered with 429 on the primary
\* and on the fallback request is taken as a rate-limit failure, whatever the
\* body of the answer.
C7_Upstream429IsRateLimited ==
  (last.op = "fetched" /\ last.up429) => last.rl

\* C8: at most one drain loop runs and at most one job is being processed;
\* isProcessing is true exactly while a drain runs; a call of processQueue
\* made while isProcessing is true changes no drain and no queued job.
C8_SingleFlightDrain ==
  /\ [](Cardinality(drains) <= 1 /\ (isProcessing <=> drains # {}))
  /\ [](\A d \in drains : d.pc \in {"getPhoto", "printPhoto"} <=> d.job.status = "printing")
  /\ [](\A i \in 1..Len(printQueue) : printQueue[i].status # "printing")
  /\ [][ (isProcessing /\ last'.op = "fetched" /\ last'.kind \in {"tick", "manual"}) =>
           /\ last'.pq = "refused"
           /\ drains' = drains
           /\ isProcessing'
           /\ Len(printQueue') >= Len(printQueue)
           /\ SubSeq(printQueue', 1, Len(printQueue)) = printQueue ]_vars

\* C8 witness: processQueue was called and refused while a job was printing
\* and another job was waiting.
C8_Witness ==
  /\ last.op = "fetched" /\ last.pq = "refused"
  /\ Len(printQueue) > 0
  /\ \E d \in drains : d.job.status = "printing"

\* C9: status=failed is sent for a job exactly once, when its third attempt
\* has failed and never before; from then on the job is in no queue, and a
\* job whose third attempt ends goes on to printPhoto, to the printed
\* notification or to the failed notification, never back to the queue.
C9_FailedNotifiedOnce ==
  /\ [](\A j \in 1..MaxJobs :
          /\ hist[j].failed <= 1
          /\ hist[j].failed = 1 =>
               /\ ~Queued(j)
               /\ \A d \in drains : d.job.id = j =>
                    d.pc = "updateFailed" /\ d.job.attempts = 3 /\ d.job.status = "failed")
  /\ [](\A d \in drains : d.pc = "updateFailed" => hist[d.job.id].failed = 1)
  /\ [][ \A d \in drains :
           (d.job.attempts = 3 /\ d \notin drains') =>
             /\ ~Queued(d.job.id)'
             /\ \/ d.pc = "getPhoto" /\ [d EXCEPT !.pc = "printPhoto"] \in drains'
                \/ d.pc = "printPhoto" /\ Held(d.job.id)' /\ hist'[d.job.id].printed = 1
                \/ d.pc \in {"getPhoto", "printPhoto"} /\ Held(d.job.id)'
                     /\ hist'[d.job.id].failed = 1
                \/ d.pc \in {"updatePrinted", "updateFailed"} /\ ~Held(d.job.id)' ]_vars

\* C9 witness: a job failed three times and was dropped after a failed
\* notification that did not reach the upstream service.
C9_Witness ==
  /\ \E j \in 1..MaxJobs : hist[j].failed = 1 /\ ~Queued(j) /\ ~Held(j)
  /\ \A p \in Photos : remote[p] = "pending"

\* C10: once printPhoto has returned true for a job, the job is completed with
\* completedAt set, status=printed has been sent for it exactly once and
\* status=failed never, and the job is in no queue.
C10_PrintedJobDone ==
  \A j \in 1..MaxJobs :
    /\ hist[j].printOk <=> hist[j].printed = 1
    /\ hist[j].printed <= 1
    /\ (\E d \in drains : d.job.id = j /\ d.pc = "updatePrinted") => hist[j].printOk
    /\ hist[j].printOk =>
         /\ hist[j].failed = 0
         /\ ~Queued(j)
         /\ \A d \in drains : d.job.id = j =>
              /\ d.pc = "updatePrinted"
              /\ d.job.status = "completed"
              /\ d.job.completedAt # NoTime

\* C10 witness: a job was printed, its printed notification did not reach
\* the upstream service, and the job is gone with the drain ended.
C10_Witness ==
  /\ \E j \in 1..MaxJobs : hist[j].printOk /\ ~Queued(j) /\ ~Held(j)
  /\ \A p \in Photos : remote[p] = "pending"
  /\ drains = {} /\ printQueue = <<>>

\* C11: when the status=printed notification of a job fails on an attempt with
\* attempts < 3, the job goes back for another attempt: it is queued again with
\* status queued and the error message, at the tail, or (being the only job)
\* the drain has taken it at once for its next attempt.
C11_NotificationFailureRetried ==
  [][ \A d \in drains :
        ( /\ d.pc = "updatePrinted" /\ d \notin drains'
          /\ remote'[d.job.photoId] # "printed"
          /\ d.job.attempts < 3 ) =>
        \/ /\ Len(printQueue') > 0
           /\ printQueue'[Len(printQueue')].id = d.job.id
           /\ printQueue'[Len(printQueue')].status = "queued"
           /\ printQueue'[Len(printQueue')].error # "none"
        \/ \E n \in drains' :
             /\ n.job.id = d.job.id /\ n.pc = "getPhoto"
             /\ n.job.attempts = d.job.attempts + 1 ]_vars

\* A printPhoto call that has settled by the next state.
Settles(c) == \A x \in prints' : Key(x) # Key(c)
Attempting(j) == \E d \in drains : d.job.id = j /\ d.pc \in {"getPhoto", "printPhoto"}

\* C12: when the printPhoto call of a job fails because the image payload is
\* in no supported format, or because the platform has no print command, the
\* job is not queued again and no further attempt of it starts.
C12_UnsupportedNotRetried ==
  [][ \A c \in prints :
        ( /\ c.caller = "job" /\ Settles(c) /\ ~last'.ok
          /\ c.why = "format" \/ (c.pc = "dispatch" /\ ~Supported(platform)) ) =>
        ~Queued(c.n)' /\ ~Attempting(c.n)' ]_vars

\* C13: a printPhoto call returns true only when the print command for the
\* temp file that this call queued has just completed successfully and the
\* call was awaiting it - also when another print was in flight at the time
\* of the call.
C13_TrueOnlyAfterOwnPrint ==
  [][ \A c \in prints :
        (Settles(c) /\ last'.ok) =>
        \E a \in dispatches :
          a.by = Key(c) /\ a.waiter = Key(c) /\ a.pc = "cleanup" /\ a.ok ]_vars

\* Activations whose print command (first or fallback) is running.
Running == {a \in dispatches : a.pc \in {"command", "fallback"}}

\* C14: at most one print command runs at a time, and only under isPrinting;
\* a file queued while isPrinting is true starts no command in that step, and
\* a command starts only when none was running in the state before.
C14_OnePrintCommand ==
  /\ [](Cardinality(dispatches) <= 1 /\ Cardinality(Running) <= 1)
  /\ [](dispatches # {} <=> isPrinting)
  /\ [][ (isPrinting /\ Len(printFiles') > Len(printFiles)) =>
           dispatches' = dispatches /\ isPrinting' ]_vars
  /\ [][ (Running' \ Running) # {} =>
           \A a \in Running : a.pc = "command" /\ [a EXCEPT !.pc = "fallback"] \in Running' ]_vars

\* C14 witness: a command is running while two files, queued during it by a
\* job and by a self-test, wait.
C14_Witness ==
  /\ Running # {} /\ isPrinting
  /\ Len(printFiles) = 2
  /\ \E i, k \in 1..2 : printFiles[i].by.caller = "job" /\ printFiles[k].by.caller = "test"

\* C15: when a printPhoto call settles, with true or with false, the temp
\* file it created is no longer in the temp directory.
C15_TempFileGoneWhenSettled ==
  [][ \A c \in prints : Settles(c) => c.file \notin tempDir' ]_vars

\* C16: at most one polling timer is armed, and the armed timer polls the
\* event of the most recent startPolling call.
C16_OneTimerLatestEvent ==
  /\ Cardinality(timers) <= 1
  /\ \A t \in timers : t.eventId = lastEventId

\* C17: once stopPolling has returned, no timer callback runs until
\* startPolling is called again.
C17_NoCycleAfterStop ==
  [][ stopped => last'.op # "tick" ]_vars

\* C18: when stopPolling has cleared the timer of E1 and startPolling(E2) is
\* called next, from then on no timer of E1 is left to fire: none is armed and
\* no startPolling call is about to arm one, and at most one timer is armed,
\* so no tick runs twice.
C18_ReplacedTimerGone ==
  [][ ( /\ last.op = "stopPolling" /\ last.ev = "E1"
        /\ last'.op = "startPolling" /\ last'.ev = "E2" ) =>
      /\ \A t \in timers' : t.eventId = "E2"
      /\ \A c \in BagToSet(calls') : c.kind = "start" => c.eventId = "E2"
      /\ Cardinality(timers') <= 1 ]_vars

\* C19: startPolling with an empty event id throws and changes nothing: no
\* fetch is issued, the armed timers stay armed, and the queue, the drain and
\* the breaker state are as before.
C19_EmptyStartRejected ==
  [][ (last'.op = "startPolling" /\ last'.ev = "") =>
        /\ ~last'.ok
        /\ UNCHANGED <<printQueue, isProcessing, drains, calls, timers, pollInterval,
                       lastEventId, consecutive429s, breakerOpenUntil, remote,
                       nextJob, nextTimer, hist>> ]_vars

\* C19 witness: startPolling("") has been rejected while a timer was armed,
\* the breaker open and a job in flight.
C19_Witness ==
  /\ last.op = "startPolling" /\ last.ev = "" /\ ~last.ok
  /\ timers # {} /\ pollInterval # NoTimer
  /\ BreakerOpenNow
  /\ drains # {} /\ isProcessing

\* C20: an operation called with an empty event id is rejected: it ends in
\* that step with an error, without going on to processQueue and without
\* touching the queue, the drain or the gateway - startPolling and
\* printPhotosByEventId alike.
C20_MissingEventRejected ==
  [][ (last'.ev = "" /\ last'.op \in {"startPolling", "printPhotosByEventId", "fetched"}) =>
        /\ ~last'.ok
        /\ last'.pq = "none"
        /\ UNCHANGED <<printQueue, isProcessing, drains, calls>> ]_vars

\* C21: stopPolling changes only the timer named by pollInterval: the queue,
\* isProcessing, the drain with its job in flight, the breaker state and the
\* discoveries awaited are as before; with no timer armed, and when called
\* twice in a row, it leaves the armed timers as they are.
C21_StopOnlyClearsTimer ==
  [][ last'.op = "stopPolling" =>
        /\ UNCHANGED <<printQueue, isProcessing, drains, consecutive429s,
                       breakerOpenUntil, calls, remote, hist, nextJob, lastEventId>>
        /\ timers' = {t \in timers : t.id # pollInterval}
        /\ pollInterval' = NoTimer
        /\ (timers = {} \/ last.op = "stopPolling") => timers' = timers ]_vars

\* C21 witness: stopPolling has just cleared the timer while a job was in
\* flight and the breaker open; and it has been called twice in a row.
C21_Witness ==
  /\ last.op = "stopPolling" /\ last.ok
  /\ timers = {} /\ drains # {} /\ isProcessing /\ BreakerOpenNow

\* C22: clearQueue leaves printQueue empty whatever it contained and changes
\* neither isProcessing, nor the breaker's counter and deadline, nor the timer,
\* nor the job a drain is processing and the point its attempt has reached,
\* nor any discovery in flight.
C22_ClearOnlyEmptiesQueue ==
  [][ last'.op = "clearQueue" =>
        /\ printQueue' = <<>>
        /\ UNCHANGED <<isProcessing, drains, consecutive429s, breakerOpenUntil,
                       pollInterval, timers, calls, remote, hist, nextJob>> ]_vars

\* C22 witness: clearQueue has discarded a job that was never attempted,
\* while another job was being processed, the timer armed and the breaker
\* open.
C22_Witness ==
  /\ last.op = "clearQueue" /\ printQueue = <<>>
  /\ isProcessing /\ drains # {} /\ timers # {} /\ BreakerOpenNow
  /\ \E j \in 1..nextJob : ~Queued(j) /\ ~Held(j) /\ hist[j] = NoHist

\* C23: printPhotosByEventId(E) issues exactly one discovery for E with limit
\* 50, with or without a timer armed, and does nothing else before the answer;
\* when the answer (or the failure) has been handled it calls processQueue: if
\* no drain is running then, either the queue is empty and nothing starts, or
\* a drain starts with the flag set; and a drain ends, releasing the
\* operation that awaits it, only in a step that leaves the queue empty and
\* isProcessing false.
C23_ManualFetchThenDrain ==
  /\ [][ (last'.op = "printPhotosByEventId" /\ last'.ok) =>
           /\ calls' = calls (+) SetToBag({Call("manual", last'.ev, 50, "primary", NoStatus)})
           /\ UNCHANGED <<printQueue, isProcessing, drains, pollInterval, timers>> ]_vars
  /\ [][ (last'.op = "fetched" /\ last'.kind = "manual") =>
           /\ last'.pq = "refused" <=> isProcessing
           /\ last'.pq = "refused" => UNCHANGED <<isProcessing, drains>>
           /\ last'.pq = "empty" => printQueue' = <<>> /\ ~isProcessing' /\ drains' = {}
           /\ last'.pq = "started" => isProcessing' /\ Cardinality(drains') = 1
           /\ UNCHANGED <<pollInterval, timers>> ]_vars
  /\ [][ Cardinality(drains') < Cardinality(drains) =>
           printQueue' = <<>> /\ ~isProcessing' ]_vars

\* C23 witness: with the timer armed, the answer to a manual discovery has
\* started a drain that holds one job while another waits.
C23_Witness ==
  /\ last.op = "fetched" /\ last.kind = "manual" /\ last.pq = "started"
  /\ timers # {} /\ isProcessing /\ drains # {} /\ Len(printQueue) > 0

\* C24: a printPhoto call whose payload is neither a data URL nor an http(s)
\* URL never writes, downloads or dispatches: it queues no file and no
\* command runs for it, from its first step to its return its steps leave
\* isPrinting, the file queue and the running commands as they are and add
\* no file to the temp directory, and it returns false.
C24_UnsupportedPayloadRejected ==
  /\ [](\A c \in prints : c.why = "format" =>
           /\ c.pc = "cleanup"
           /\ \A i \in 1..Len(printFiles) : printFiles[i].by # Key(c)
           /\ \A a \in dispatches : a.by # Key(c) /\ a.waiter # Key(c))
  /\ [][ \A c \in (prints \cup prints') :
           (c.why = "format" /\ (c \notin prints \/ c \notin prints')) =>
             /\ UNCHANGED <<isPrinting, printFiles, dispatches>>
             /\ tempDir' \subseteq tempDir
             /\ c \notin prints' =>
                  last'.op = "printPhoto" /\ ~last'.ok /\ last'.why = "format" ]_vars

\* C24 witness: a job's printPhoto call has returned false for its payload's
\* format while a self-test's print command was running and another file
\* waited; the file queue and the flag are as they were.
C24_Witness ==
  /\ last.op = "printPhoto" /\ last.kind = "job" /\ ~last.ok /\ last.why = "format"
  /\ isPrinting /\ Running # {} /\ Len(printFiles) > 0

\* C25: whenever a print command is in flight, getQueueStatus().currentJob is
\* the basename of the file that command is printing and queueLength is the
\* number of files still waiting; currentJob is null exactly when no print is
\* in progress.
C25_CurrentJobIsFilePrinting ==
  /\ \A a \in Running : GetQueueStatus.currentJob = BaseName(a.file)
  /\ GetQueueStatus.queueLength = Len(printFiles)
  /\ GetQueueStatus.currentJob = NoFile <=> ~isPrinting

\* C26: every discovery that succeeds, whoever made it and whatever it
\* returned, leaves consecutive429s at 0 and breakerOpenUntil as it was.
C26_SuccessResetsCounter ==
  [][ (last'.op = "fetched" /\ last'.ok) =>
        /\ consecutive429s' = 0
        /\ breakerOpenUntil' = breakerOpenUntil ]_vars

\* C26 witness: the initial fetch of startPolling has succeeded with no
\* photos while the breaker was open; the deadline is still there.
C26_Witness ==
  /\ last.op = "fetched" /\ last.ok /\ last.kind = "start" /\ last.photos = <<>>
  /\ consecutive429s = 0 /\ BreakerOpenNow

\* C27: a discovery that fails with an error that is not a rate-limit failure
\* changes neither consecutive429s nor breakerOpenUntil, creates no job, and
\* its caller goes on as after a success: startPolling arms its timer for the
\* event, leaving the queue alone; a timer callback and printPhotosByEventId
\* call processQueue, which starts a drain on the head of the unchanged queue
\* if none runs and the queue is not empty, and otherwise does nothing; the
\* timer that fetches again stays armed.
C27_OtherFailureIgnored ==
  [][ (last'.op = "fetched" /\ ~last'.ok /\ ~last'.rl) =>
        /\ UNCHANGED <<consecutive429s, breakerOpenUntil, nextJob, hist, remote>>
        /\ IF last'.kind = "start"
           THEN /\ UNCHANGED <<printQueue, isProcessing, drains>>
                /\ pollInterval' \notin {t.id : t \in timers} \cup {NoTimer}
                /\ timers' = timers \cup {[id |-> pollInterval', eventId |-> last'.ev]}
           ELSE /\ UNCHANGED <<pollInterval, timers>>
                /\ IF ~isProcessing /\ Len(printQueue) > 0
                   THEN /\ printQueue' = Tail(printQueue)
                        /\ isProcessing'
                        /\ \E d \in drains' : d.job.id = Head(printQueue).id
                   ELSE UNCHANGED <<printQueue, isProcessing, drains>> ]_vars

\* C27 witness: with the breaker open and the timer armed, the discovery of
\* printPhotosByEventId has failed with an error that is not a rate-limit
\* failure; the deadline stands, and the operation has started a drain on the
\* job that was waiting.
C27_Witness ==
  /\ last.op = "fetched" /\ ~last.ok /\ ~last.rl /\ last.kind = "manual"
  /\ last.pq = "started" /\ drains # {} /\ BreakerOpenNow /\ timers # {}

\* The photos of a response that a discovery has to queue, the queue being q:
\* those in no job of q, each at its first place in the response.
ToQueue(q, photos) ==
  LET places == [i \in 1..Len(photos) |-> i]
      fresh(i) == /\ \A k \in 1..Len(q) : q[k].photoId # photos[i]
                  /\ \A k \in 1..(i - 1) : photos[k] # photos[i]
      kept == SelectSeq(places, fresh)
  IN [k \in 1..Len(kept) |-> photos[kept[k]]]

\* The queue a successful discovery has to leave before processQueue is
\* called: the jobs of q as they are, then one new job per photo to queue.
AfterDiscovery(q, photos) ==
  LET new == ToQueue(q, photos) IN
  q \o [k \in 1..Len(new) |->
         [id |-> nextJob + k, photoId |-> new[k], status |-> "queued",
          attempts |-> 0, completedAt |-> NoTime, error |-> "none"]]

\* C28: a successful discovery appends at the tail, in the order of the
\* response, exactly one job with status queued and attempts 0 for each
\* returned photo that is in no queued job (once for a photo the response
\* repeats), and leaves the jobs already queued as they are, in the same
\* order; the drain that the caller may start in the same step takes the head
\* of that queue.
C28_DiscoveryAppendsNewPhotos ==
  [][ (last'.op = "fetched" /\ last'.ok) =>
        LET q == AfterDiscovery(printQueue, last'.photos) IN
        /\ nextJob' = nextJob + (Len(q) - Len(printQueue))
        /\ IF last'.pq = "started"
           THEN /\ printQueue' = Tail(q)
                /\ \E d \in drains' :
                     [d.job EXCEPT !.status = "queued", !.attempts = @ - 1] = Head(q)
           ELSE printQueue' = q ]_vars

\* C28 witness: while a drain runs, a response that names one photo twice has
\* been queued behind a job that waits for its retry: one new job at the tail.
C28_Witness ==
  /\ last.op = "fetched" /\ last.ok /\ last.pq = "refused"
  /\ Len(last.photos) = 2 /\ last.photos[1] = last.photos[2]
  /\ Len(printQueue) = 2
  /\ printQueue[1].attempts > 0 /\ printQueue[1].photoId # last.photos[1]
  /\ printQueue[2].attempts = 0 /\ printQueue[2].photoId = last.photos[1]

\* C29: a drain takes a job only from the head of printQueue, the jobs behind
\* it keeping their order, and only when the job it held before is done with:
\* its notification (printed or failed) has been answered, or it has been put
\* back at the tail for its retry (and is itself the job taken when nothing
\* else waits). At no time are two jobs held.
C29_DrainIsFifo ==
  /\ [](Cardinality(drains) <= 1)
  /\ [][ \A n \in drains' \ drains : n.pc = "getPhoto" =>
           /\ drains' = {n}
           /\ n.job.status = "printing"
           /\ \A d \in drains :
                \/ d.pc \in {"updatePrinted", "updateFailed"}
                \/ /\ d.pc \in {"getPhoto", "printPhoto"}
                   /\ IF Len(printQueue) = 0
                      THEN n.job.id = d.job.id /\ n.job.attempts = d.job.attempts + 1
                      ELSE LET back == printQueue'[Len(printQueue')] IN
                           /\ Len(printQueue') = Len(printQueue)
                           /\ back.id = d.job.id /\ back.status = "queued"
                           /\ back.attempts = d.job.attempts
           /\ IF Len(printQueue) > 0
              THEN /\ n.job.id = Head(printQueue).id
                   /\ n.job.attempts = Head(printQueue).attempts + 1
                   /\ Tail(printQueue) = SubSeq(printQueue', 1, Len(printQueue) - 1)
              ELSE n.job.id \in {d.job.id : d \in drains} \cup {nextJob + 1} ]_vars

\* C29 witness: the drain has put a failed job back behind two waiting jobs
\* and taken the first of them.
C29_Witness ==
  /\ last.op = "step" /\ Len(printQueue) = 2
  /\ printQueue[2].attempts > 0 /\ printQueue[1].attempts = 0
  /\ \E d \in drains : d.pc = "getPhoto" /\ d.job.attempts = 1
                        /\ d.job.id > printQueue[2].id /\ d.job.id < printQueue[1].id

\* Place of job j in queue q (0: not there).
Place(q, j) == IF \E i \in 1..Len(q) : q[i].id = j
               THEN CHOOSE i \in 1..Len(q) : q[i].id = j
               ELSE 0

\* C30: when an attempt fails with attempts < 3, the job is put back at the
\* tail with the same id, its attempts kept and status queued, behind every
\* job that was waiting, the first of which is taken next (the job itself if
\* none was waiting); and no step lets a job overtake another in the queue:
\* jobs that stay keep their order and jobs that enter stand behind them.
\* So the jobs that waited when a job failed are all taken before that job's
\* next attempt, and a job that always fails holds up another at most once
\* per attempt of that other job.
C30_RetryGoesToTail ==
  /\ [][ \A d \in drains :
           ( /\ d.pc \in {"getPhoto", "printPhoto"}
             /\ d.job.attempts < 3
             /\ \A n \in drains' : ~(n.job.id = d.job.id /\ n.job.attempts = d.job.attempts) )
           => IF Len(printQueue) = 0
              THEN /\ printQueue' = <<>>
                   /\ \E n \in drains' : /\ n.job.id = d.job.id
                                          /\ n.job.photoId = d.job.photoId
                                          /\ n.job.attempts = d.job.attempts + 1
              ELSE LET back == printQueue'[Len(printQueue')] IN
                   /\ Len(printQueue') = Len(printQueue)
                   /\ SubSeq(printQueue', 1, Len(printQueue) - 1) = Tail(printQueue)
                   /\ back.id = d.job.id /\ back.photoId = d.job.photoId
                   /\ back.attempts = d.job.attempts /\ back.status = "queued"
                   /\ \E n \in drains' : n.job.id = Head(printQueue).id ]_vars
  /\ [][ \A i, k \in 1..Len(printQueue') :
           LET a == Place(printQueue, printQueue'[i].id)
               b == Place(printQueue, printQueue'[k].id)
           IN (i < k /\ b # 0) => (a # 0 /\ a < b) ]_vars

\* C30 witness: a job has failed its second attempt and waits at the tail
\* behind a job that failed once, while the third job is in its second
\* attempt.
C30_Witness ==
  /\ Len(printQueue) = 2
  /\ printQueue[1].attempts = 1 /\ printQueue[1].status = "queued"
  /\ printQueue[2].attempts = 2 /\ printQueue[2].status = "queued"
  /\ printQueue[2].error # "none"
  /\ \E d \in drains : d.pc = "getPhoto" /\ d.job.attempts = 2

\* C31: provided every call a drain awaits returns, every drain ends: from
\* any state with isProcessing true a state is reached with isProcessing
\* false; the flag is released only in a step that leaves printQueue empty
\* and no job held, whether the last attempt succeeded or failed.
C31_DrainEnds ==
  /\ [][ (isProcessing /\ ~isProcessing') => printQueue' = <<>> /\ drains' = {} ]_vars
  /\ isProcessing ~> (~isProcessing /\ printQueue = <<>>)

\* C31 witness: a drain has ended after a job failed its third attempt and
\* its terminal notification was answered.
C31_Witness ==
  /\ ~isProcessing /\ drains = {} /\ printQueue = <<>>
  /\ \E j \in 1..nextJob : hist[j].failed = 1

\* C32: the files of the print-file queue are dispatched in FIFO order (an
\* activation takes the head of the queue as it stood, or the file queued in
\* the same step when nothing waited), and a file is deleted only after its
\* own print command has finished: every file that waits in the queue or
\* whose command is running is present in the temp directory.
C32_QueuedFileKeptUntilPrinted ==
  /\ [](\A i \in 1..Len(printFiles) : printFiles[i].path \in tempDir)
  /\ [](\A a \in Running : a.file \in tempDir)
  /\ [][ \A a \in dispatches' \ dispatches :
           (\A b \in dispatches : b.by # a.by \/ b.file # a.file) =>
             IF Len(printFiles) > 0
             THEN a.file = Head(printFiles).path /\ a.by = Head(printFiles).by
             ELSE printFiles' = <<>> ]_vars

\* C33: on Windows the fallback command is run only when the first print
\* command did not start; a first command that started and closed with a
\* non-zero code ends the print as a failure, without the fallback.
C33_FallbackOnlyWhenNotStarted ==
  [][ last'.op = "commandExit" =>
        \A a \in dispatches : a.pc = "command" =>
          /\ [a EXCEPT !.pc = "fallback"] \in dispatches' => last'.why = "nostart"
          /\ last'.why = "exit" => [a EXCEPT !.pc = "cleanup", !.ok = FALSE] \in dispatches' ]_vars

\* C34: the printed notification of a job is sent only when a print command
\* for the temp file of that job's printPhoto call has exited successfully -
\* also when another print was in flight when the job called printPhoto.
C34_PrintedOnlyAfterOwnCommand ==
  [][ \A j \in 1..nextJob :
        hist'[j].printed > hist[j].printed =>
          \E a \in dispatches :
            a.by = [caller |-> "job", n |-> j] /\ a.pc = "cleanup" /\ a.ok ]_vars

\* C35: once printPhoto has returned true for a job of a photo, printPhoto is
\* never called again for that photo: not by a second job created by a
\* discovery that ran while the first was in flight, nor by one created after
\* the printed notification failed.
C35_NoPrintAfterSuccess ==
  [][ \A n \in drains' \ drains :
        n.pc = "printPhoto" =>
          \A j \in 1..nextJob : n.job.photoId \notin hist[j].photos ]_vars

\* Job j has left the system: completed and notified printed, or terminally
\* failed and notified failed.
Left(j) == ~Queued(j) /\ ~Held(j) /\ hist[j].printed + hist[j].failed >= 1

\* The modelled time has run out inside a breaker window.
ClockOut == BreakerOpenNow /\ now + TimeStep > MaxTime

C37_ClearedJobsStayOut ==
  [][ (last.op = "clearQueue" /\ last'.op # "clearQueue") =>
        /\ \A i \in 1..Len(printQueue') : printQueue'[i].id > nextJob
        /\ \A n \in drains' \ drains : n.pc = "getPhoto" => n.job.id > nextJob ]_vars

\* C38: every job in printQueue has status queued and 0, 1 or 2 attempts;
\* the statuses printing, completed and failed are found only on the one job
\* that a drain has taken out of the queue.
C38_QueuedJobsAreQueued ==
  /\ \A i \in 1..Len(printQueue) :
       printQueue[i].status = "queued" /\ printQueue[i].attempts \in {0, 1, 2}
  /\ Cardinality(drains) <= 1
  /\ \A d \in drains : d.job.status \in {"printing", "completed", "failed"}
  /\ \A d \in drains : \A i \in 1..Len(printQueue) : printQueue[i].id # d.job.id

\* C38 witness: a job that has failed twice waits with status queued while
\* the drain holds a job of status failed.
C38_Witness ==
  /\ \E i \in 1..Len(printQueue) : printQueue[i].attempts = 2
  /\ \E d \in drains : d.job.status = "failed" /\ d.job.attempts = 3

\* C39: between two steps of the dispatch engine, isPrinting false means that
\* no file waits in the print-file queue and no command is in flight; and a
\* printPhoto call whose file is written while the engine is idle sees that
\* very file dispatched, the call awaiting its result.
C39_IdleMeansEmpty ==
  /\ [](~isPrinting => printFiles = <<>> /\ dispatches = {})
  /\ [][ \A c \in prints :
           (/\ c.pc = "write" /\ ~isPrinting
            /\ c \notin prints'
            /\ [c EXCEPT !.pc = "cleanup", !.why = "write"] \notin prints') =>
             /\ printFiles' = <<>>
             /\ \E a \in dispatches' :
                  a.file = c.file /\ a.by = Key(c) /\ a.waiter = Key(c) ]_vars

\* C39 witness: the engine is idle again right after a self-test's own
\* dispatch ended well, both self-tests having been started.
C39_Witness ==
  /\ ~isPrinting /\ printFiles = <<>>
  /\ nextTest = MaxTests
  /\ last.op = "printPhoto" /\ last.kind = "test" /\ last.ok

\* C40: two printPhoto calls that are under way at the same time use
\* different temp file paths, and so does a call under way and the file of
\* another call that is queued or being printed; hence a cleanup never removes
\* the file of a command that is still in flight for another call.
C40_DistinctTempPaths ==
  /\ [](\A c1, c2 \in prints : Key(c1) # Key(c2) => c1.file # c2.file)
  /\ [](\A c \in prints : \A a \in dispatches : a.by # Key(c) => a.file # c.file)
  /\ [](\A c \in prints : \A i \in 1..Len(printFiles) :
          printFiles[i].by # Key(c) => printFiles[i].path # c.file)
  /\ [][ \A a \in dispatches : a.pc \in {"command", "fallback"} /\ a \in dispatches' =>
           (a.file \in tempDir => a.file \in tempDir') ]_vars
====
